---- MODULE Spec2Model ----
(***************************************************************************)
(* MemeDoc (src/Home.py): the risk score, its three-way classification,    *)
(* the slider colour gradient and the session state of the Streamlit page. *)
(*                                                                         *)
(* Python floats are IEEE-754 binary64.  They are modelled exactly: a      *)
(* float is a record [s, m, e] standing for (-1)^s * m * 2^e with m = 0 or *)
(* 2^52 <= m < 2^53, and every operation rounds to nearest, ties to even,  *)
(* as the hardware does.  TLC's integers are 32 bits wide, so mantissas    *)
(* and Python's unbounded ints are kept as little-endian sequences of      *)
(* 15-bit limbs (<<>> is zero, the top limb is never zero).                *)
(***************************************************************************)
EXTENDS Integers, Sequences, FiniteSets, TLC

(***************************************************************************)
(* Natural numbers of any size                                             *)
(***************************************************************************)
LimbBits == 3 * 5
Base == 2 ^ LimbBits

RECURSIVE BigTrim(_)
BigTrim(a) ==
    IF a = <<>> THEN a
    ELSE IF a[Len(a)] = 0 THEN BigTrim(SubSeq(a, 1, Len(a) - 1))
    ELSE a

RECURSIVE BigFromInt(_)
BigFromInt(n) ==
    IF n = 0 THEN <<>> ELSE <<n % Base>> \o BigFromInt(n \div Base)

Limb(a, i) == IF i <= Len(a) THEN a[i] ELSE 0

RECURSIVE BigAddFrom(_, _, _, _)
BigAddFrom(a, b, i, c) ==
    IF i > Len(a) /\ i > Len(b)
    THEN (IF c = 0 THEN <<>> ELSE <<c>>)
    ELSE LET t == Limb(a, i) + Limb(b, i) + c
         IN  <<t % Base>> \o BigAddFrom(a, b, i + 1, t \div Base)

BigAdd(a, b) == BigAddFrom(a, b, 1, 0)

RECURSIVE BigSubFrom(_, _, _, _)
BigSubFrom(a, b, i, c) ==
    IF i > Len(a) THEN <<>>
    ELSE LET t == a[i] - Limb(b, i) - c
         IN  IF t < 0 THEN <<t + Base>> \o BigSubFrom(a, b, i + 1, 1)
             ELSE <<t>> \o BigSubFrom(a, b, i + 1, 0)

\* a - b, for a >= b
BigSub(a, b) == BigTrim(BigSubFrom(a, b, 1, 0))

RECURSIVE BigCmpFrom(_, _, _)
BigCmpFrom(a, b, i) ==
    IF i = 0 THEN 0
    ELSE IF a[i] < b[i] THEN -1
    ELSE IF a[i] > b[i] THEN 1
    ELSE BigCmpFrom(a, b, i - 1)

\* -1, 0 or 1 as a < b, a = b, a > b
BigCmp(a, b) ==
    IF Len(a) < Len(b) THEN -1
    ELSE IF Len(a) > Len(b) THEN 1
    ELSE BigCmpFrom(a, b, Len(a))

RECURSIVE BigMulSmallFrom(_, _, _, _)
BigMulSmallFrom(a, k, i, c) ==
    IF i > Len(a) THEN (IF c = 0 THEN <<>> ELSE <<c>>)
    ELSE LET t == a[i] * k + c
         IN  <<t % Base>> \o BigMulSmallFrom(a, k, i + 1, t \div Base)

\* a * k, for 0 <= k <= Base
BigMulSmall(a, k) == IF k = 0 THEN <<>> ELSE BigMulSmallFrom(a, k, 1, 0)

BigShlLimbs(a, n) == IF a = <<>> THEN a ELSE [i \in 1..n |-> 0] \o a

RECURSIVE BigMulFrom(_, _, _)
BigMulFrom(a, b, i) ==
    IF i > Len(b) THEN <<>>
    ELSE BigAdd(BigShlLimbs(BigMulSmall(a, b[i]), i - 1), BigMulFrom(a, b, i + 1))

BigMul(a, b) == BigMulFrom(a, b, 1)

\* a * 2^n
BigShl(a, n) == BigShlLimbs(BigMulSmall(a, 2 ^ (n % LimbBits)), n \div LimbBits)

RECURSIVE BigDivSmallFrom(_, _, _, _)
BigDivSmallFrom(a, d, i, r) ==
    IF i = 0 THEN [q |-> <<>>, r |-> r]
    ELSE LET t    == r * Base + a[i]
             rest == BigDivSmallFrom(a, d, i - 1, t % d)
         IN  [q |-> rest.q \o <<t \div d>>, r |-> rest.r]

\* quotient and remainder of a by d, for 0 < d <= Base
BigDivSmall(a, d) ==
    LET qr == BigDivSmallFrom(a, d, Len(a), 0)
    IN  [q |-> BigTrim(qr.q), r |-> qr.r]

\* floor(a / 2^n)
BigShr(a, n) ==
    LET k == n \div LimbBits
    IN  IF k >= Len(a) THEN <<>>
        ELSE BigDivSmall(SubSeq(a, k + 1, Len(a)), 2 ^ (n % LimbBits)).q

RECURSIVE IntBitLen(_)
IntBitLen(n) == IF n = 0 THEN 0 ELSE 1 + IntBitLen(n \div 2)

BigBitLen(a) ==
    IF a = <<>> THEN 0 ELSE (Len(a) - 1) * LimbBits + IntBitLen(a[Len(a)])

BigIsOdd(a) == a # <<>> /\ a[1] % 2 = 1

\* the value of a, for a < 2^31
RECURSIVE BigToInt(_)
BigToInt(a) == IF a = <<>> THEN 0 ELSE a[1] + Base * BigToInt(Tail(a))

(***************************************************************************)
(* IEEE-754 binary64, round to nearest, ties to even                       *)
(***************************************************************************)
MantBits == 53
\* the largest exponent e of a finite double m * 2^e with 2^52 <= m < 2^53
MaxExp == 1023 - 52

FZero(s) == [s |-> s, m |-> <<>>, e |-> 0]

FIsZero(a) == a.m = <<>>

\* The double nearest to (-1)^s * (M + f) * 2^e, where 0 <= f < 1 and f # 0
\* exactly when sticky; a sticky M has more than MantBits + 1 bits.
FRound(s, M, e, sticky) ==
    LET L == BigBitLen(M)
    IN  IF M = <<>> THEN FZero(s)
        ELSE IF L <= MantBits
        THEN [s |-> s, m |-> BigShl(M, MantBits - L), e |-> e - (MantBits - L)]
        ELSE LET k    == L - MantBits
                 q    == BigShr(M, k)
                 r    == BigSub(M, BigShl(q, k))
                 half == BigShl(<<1>>, k - 1)
                 c    == BigCmp(r, half)
                 up   == c = 1 \/ (c = 0 /\ (sticky \/ BigIsOdd(q)))
                 q1   == IF up THEN BigAdd(q, <<1>>) ELSE q
             IN  IF BigBitLen(q1) > MantBits
                 THEN [s |-> s, m |-> BigShr(q1, 1), e |-> e + k + 1]
                 ELSE [s |-> s, m |-> q1, e |-> e + k]

\* A Python int (-1)^s * n * 2^sh: ints have no size limit, and a long run
\* of low zero bits is kept as the count sh
PyInt(v) ==
    IF v < 0 THEN [s |-> 1, n |-> BigFromInt(-v), sh |-> 0]
    ELSE [s |-> 0, n |-> BigFromInt(v), sh |-> 0]

\* The double nearest to the quotient of the Python int a by d (0 < d < Base),
\* before any range check: the quotient is taken with 2 guard bits and the
\* remainder as the sticky bit.
IntRatio(a, d) ==
    LET L  == BigBitLen(a.n)
        up == IF L >= MantBits + 2 + IntBitLen(d) THEN 0
              ELSE MantBits + 2 + IntBitLen(d) - L
        qr == BigDivSmall(BigShl(a.n, up), d)
    IN  FRound(a.s, qr.q, a.sh - up, qr.r # 0)

\* int / int (true division).  CPython raises OverflowError ("integer
\* division result too large for a float") when the rounded quotient is
\* beyond the largest double.
TrueDiv(a, d) ==
    LET r == IntRatio(a, d)
    IN  IF r.e > MaxExp THEN [py |-> "OverflowError"] ELSE r

\* a decimal literal num/den (den a power of ten): the nearest double
Literal(num, den) == IntRatio(PyInt(num), den)

\* float(n) for an int n that is exactly representable
FromInt(v) == IntRatio(PyInt(v), 1)

FNeg(a) == [a EXCEPT !.s = 1 - a.s]

FMul(a, b) ==
    LET s == (a.s + b.s) % 2
    IN  IF FIsZero(a) \/ FIsZero(b) THEN FZero(s)
        ELSE FRound(s, BigMul(a.m, b.m), a.e + b.e, FALSE)

\* Exponents further apart than this leave the smaller operand below a
\* quarter of the last place of the larger: only its sign and its being
\* non-zero matter, and it is replaced by one unit that far down.
FarApart == 64

FAddAligned(a, b) ==
    \* a.e >= b.e, neither is zero
    LET A    == BigShl(a.m, a.e - b.e)
        c    == BigCmp(A, b.m)
        same == a.s = b.s
        big  == IF c = -1 THEN b.m ELSE A
        less == IF c = -1 THEN A ELSE b.m
        M    == IF same THEN BigAdd(A, b.m) ELSE BigSub(big, less)
        s    == IF same \/ c = 1 THEN a.s ELSE IF c = -1 THEN b.s ELSE 0
    IN  FRound(s, M, b.e, FALSE)

FAdd(a, b) ==
    LET swap == a.e < b.e
        hi   == IF swap THEN b ELSE a
        lo   == IF swap THEN a ELSE b
        low  == IF hi.e - lo.e > FarApart
                THEN [s |-> lo.s, m |-> <<1>>, e |-> hi.e - FarApart]
                ELSE lo
    IN  IF FIsZero(a) /\ FIsZero(b) THEN FZero(IF a.s = 1 /\ b.s = 1 THEN 1 ELSE 0)
        ELSE IF FIsZero(a) THEN b
        ELSE IF FIsZero(b) THEN a
        ELSE FAddAligned(hi, low)

FSub(a, b) == FAdd(a, FNeg(b))

\* a < b
FLt(a, b) ==
    IF FIsZero(a) /\ FIsZero(b) THEN FALSE
    ELSE IF FIsZero(a) THEN b.s = 0
    ELSE IF FIsZero(b) THEN a.s = 1
    ELSE IF a.s # b.s THEN a.s = 1
    ELSE LET lt == \/ a.e < b.e
                   \/ (a.e = b.e /\ BigCmp(a.m, b.m) = -1)
             gt == \/ a.e > b.e
                   \/ (a.e = b.e /\ BigCmp(a.m, b.m) = 1)
         IN  IF a.s = 0 THEN lt ELSE gt

FLe(a, b) == ~FLt(b, a)

\* int(a): truncation toward zero, for |a| < 2^31
FTrunc(a) ==
    IF FIsZero(a) THEN 0
    ELSE LET mag == IF a.e >= 0 THEN BigToInt(BigShl(a.m, a.e))
                    ELSE BigToInt(BigShr(a.m, -a.e))
         IN  IF a.s = 1 THEN -mag ELSE mag

(***************************************************************************)
(* Python values                                                           *)
(***************************************************************************)
None == [py |-> "None"]

OverflowError == [py |-> "OverflowError"]

IsFloat(v) == DOMAIN v = {"s", "m", "e"}

\* max(a, b) and min(a, b) of two floats: Python keeps the first argument
\* unless the second is strictly greater (smaller).
PyMax(a, b) == IF FLt(a, b) THEN b ELSE a

PyMin(a, b) == IF FLt(b, a) THEN b ELSE a

(***************************************************************************)
(* calculate_risk_score and risk_label_and_message                         *)
(***************************************************************************)
Hundred == 100

W_Y == Literal(35, 100)
W_Z == Literal(28, 100)
W_P == Literal(22, 100)
W_X == Literal(15, 100)
ScoreFloor == Literal(1, 100)
ScoreCeil == Literal(99, 100)

One == FromInt(1)

\* RiskSum with the weights of z and p exchanged
RiskSum_weights_swapped(x_norm, y_norm, z_norm, p_norm) ==
    FAdd(FAdd(FAdd(FMul(y_norm, W_Y),
                   FMul(z_norm, W_P)),
              FMul(p_norm, W_Z)),
         FMul(FSub(One, x_norm), W_X))

\* RiskSum with the narrative strength not inverted
RiskSum_x_direct(x_norm, y_norm, z_norm, p_norm) ==
    FAdd(FAdd(FAdd(FMul(y_norm, W_Y),
                   FMul(z_norm, W_Z)),
              FMul(p_norm, W_P)),
         FMul(x_norm, W_X))

\* the local `risk`: the weighted sum of the normalised inputs, before it is
\* clamped
RiskSum(x_norm, y_norm, z_norm, p_norm) ==
    FAdd(FAdd(FAdd(FMul(y_norm, W_Y),
                   FMul(z_norm, W_Z)),
              FMul(p_norm, W_P)),
         FMul(FSub(One, x_norm), W_X))

\* calculate_risk_score returning the weighted sum as it is
calculate_risk_score_unclamped(x, y, z, position_pct) ==
    LET x_norm == TrueDiv(x, Hundred)
        y_norm == TrueDiv(y, Hundred)
        z_norm == TrueDiv(z, Hundred)
        p_norm == TrueDiv(position_pct, Hundred)
    IN  IF OverflowError \in {x_norm, y_norm, z_norm, p_norm}
        THEN OverflowError
        ELSE RiskSum(x_norm, y_norm, z_norm, p_norm)

\* calculate_risk_score with the upper clamp only
calculate_risk_score_no_floor(x, y, z, position_pct) ==
    LET x_norm == TrueDiv(x, Hundred)
        y_norm == TrueDiv(y, Hundred)
        z_norm == TrueDiv(z, Hundred)
        p_norm == TrueDiv(position_pct, Hundred)
    IN  IF OverflowError \in {x_norm, y_norm, z_norm, p_norm}
        THEN OverflowError
        ELSE PyMin(ScoreCeil, RiskSum(x_norm, y_norm, z_norm, p_norm))

\* The arguments are Python ints.  A division that raises ends the call.
calculate_risk_score(x, y, z, position_pct) ==
    LET x_norm == TrueDiv(x, Hundred)
        y_norm == TrueDiv(y, Hundred)
        z_norm == TrueDiv(z, Hundred)
        p_norm == TrueDiv(position_pct, Hundred)
    IN  IF OverflowError \in {x_norm, y_norm, z_norm, p_norm}
        THEN OverflowError
        ELSE PyMin(ScoreCeil, PyMax(ScoreFloor, RiskSum(x_norm, y_norm, z_norm, p_norm)))

BandLow == Literal(38, 100)
BandHigh == Literal(68, 100)

\* risk_label_and_message comparing with <= where the source has <
risk_label_and_message_le(score) ==
    IF FLe(score, BandLow)
    THEN <<"hunter", "you may be ahead, do not be too sure", "success">>
    ELSE IF FLe(score, BandHigh)
    THEN <<"wait-and-see", "not clear now, let the others move first", "warning">>
    ELSE <<"prey", "overheated and overweight, likely to be left holding the bag", "error">>

\* risk_label_and_message with the severity of the middle band on the last
risk_label_and_message_level(score) ==
    IF FLt(score, BandLow)
    THEN <<"hunter", "you may be ahead, do not be too sure", "success">>
    ELSE IF FLt(score, BandHigh)
    THEN <<"wait-and-see", "not clear now, let the others move first", "warning">>
    ELSE <<"prey", "overheated and overweight, likely to be left holding the bag", "warning">>

\* The labels are "lie shou (hunter)", "guan wang (wait and see)" and
\* "lie wu (prey)" in the source; the messages are its advisory texts.
risk_label_and_message(score) ==
    IF FLt(score, BandLow)
    THEN <<"hunter", "you may be ahead, do not be too sure", "success">>
    ELSE IF FLt(score, BandHigh)
    THEN <<"wait-and-see", "not clear now, let the others move first", "warning">>
    ELSE <<"prey", "overheated and overweight, likely to be left holding the bag", "error">>

\* f"{score:.2f}": the decimal nearest to the float's exact value (ties to
\* even), as a count of hundredths; for 0 <= score < 2^16
Fmt2(score) ==
    IF FIsZero(score) THEN 0
    ELSE LET N == BigMulSmall(score.m, 100)
         IN  IF score.e >= 0 THEN BigToInt(BigShl(N, score.e))
             ELSE LET k    == -score.e
                      q    == BigShr(N, k)
                      r    == BigSub(N, BigShl(q, k))
                      c    == BigCmp(r, BigShl(<<1>>, k - 1))
                      up   == c = 1 \/ (c = 0 /\ BigIsOdd(q))
                  IN  BigToInt(q) + (IF up THEN 1 ELSE 0)

\* the result box of the diagnosis block: which Streamlit call draws it and
\* the label, message and formatted score it shows
RenderResult(score, label, message, level) ==
    [box   |-> IF level = "success" THEN "st.success"
               ELSE IF level = "warning" THEN "st.warning"
               ELSE "st.error",
     label |-> label, message |-> message, score |-> Fmt2(score)]

(***************************************************************************)
(* get_color_gradient                                                      *)
(***************************************************************************)
HexDigit(d) == SubSeq(<<"0", "1", "2", "3", "4", "5", "6", "7", "8", "9",
                        "a", "b", "c", "d", "e", "f">>, d + 1, d + 1)

RECURSIVE HexDigits(_)
HexDigits(n) == IF n < 16 THEN HexDigit(n) ELSE HexDigits(n \div 16) \o HexDigit(n % 16)

\* f"{n:02x}": lower-case hexadecimal, sign included, zero-padded to width 2
Hex2(n) ==
    LET body == IF n < 0 THEN <<"-">> \o HexDigits(-n) ELSE HexDigits(n)
    IN  IF Len(body) >= 2 THEN body
        ELSE IF n < 0 THEN <<"-", "0">> \o Tail(body)
        ELSE <<"0">> \o body

HalfWay == 50

get_color_gradient(value) ==
    LET r == IF value <= HalfWay
             THEN FTrunc(FMul(FromInt(255), TrueDiv(PyInt(value), HalfWay)))
             ELSE 255
        g == IF value <= HalfWay
             THEN 200
             ELSE FTrunc(FMul(FromInt(200),
                              FSub(One, TrueDiv(PyInt(value - HalfWay), HalfWay))))
        b == 0
    IN  <<"#">> \o Hex2(r) \o Hex2(g) \o Hex2(b)

(***************************************************************************)
(* State                                                                   *)
(***************************************************************************)
\* The page: st.session_state, the text in the address box, the time, what
\* the user did last and what the script run it caused drew.  A function
\* under test: the call and what it returned.
VARIABLES session_state, ca_input, clock, event, page, call, ret

vars == <<session_state, ca_input, clock, event, page, call, ret>>

Pending == [py |-> "pending"]

NoCall == [py |-> "no call"]

SliderMin == 0
SliderMax == 100

(***************************************************************************)
(* Sampled slider positions                                                *)
(***************************************************************************)
\* positions a slider of the page is moved to: its default and one other;
\* the four others together have the weighted sum 0.68 exactly
SliderStops == [x |-> {0, 50}, y |-> {38, 50}, z |-> {50, 97}, position |-> {10, 57}]

\* positions calculate_risk_score is called at: those and an even grid
GridSteps == 4
Grid == {SliderMin + ((SliderMax - SliderMin) * i) \div GridSteps : i \in 0..GridSteps}
XS == Grid \cup SliderStops.x
YS == Grid \cup SliderStops.y
ZS == Grid \cup SliderStops.z
PS == Grid \cup SliderStops.position

\* f as a table, every value computed once
Tabulate(f) == f @@ <<>>

\* calculate_risk_score at the sampled positions
ScoreTable ==
    Tabulate([c \in XS \X YS \X ZS \X PS |->
                 calculate_risk_score(PyInt(c[1]), PyInt(c[2]), PyInt(c[3]), PyInt(c[4]))])

(***************************************************************************)
(* The page                                                                *)
(***************************************************************************)
defaults ==
    [ca |-> <<>>, token_data |-> None, price_df_short |-> None,
     price_df_long |-> None, x |-> 50, y |-> 50, z |-> 50, position |-> 10,
     notes |-> <<>>, diagnosed |-> FALSE, last_fetch_time |-> None]

RECURSIVE LStrip(_)
LStrip(t) == IF t # <<>> /\ Head(t) = " " THEN LStrip(Tail(t)) ELSE t

RECURSIVE RStrip(_)
RStrip(t) ==
    IF t # <<>> /\ t[Len(t)] = " " THEN RStrip(SubSeq(t, 1, Len(t) - 1)) ELSE t

\* str.strip() of a text, a sequence of characters
Strip(t) == RStrip(LStrip(t))

\* What the quote API can answer: the request fails (no network, an HTTP
\* error status, a body that is not JSON), or a JSON object arrives whose
\* "pairs" is missing or null (None here), empty, or a list of pairs.  A
\* pair is complete when it holds the keys the token panel subscripts
\* (baseToken, priceUsd, pairCreatedAt); usd is its liquidity.usd, 0 when
\* absent.
Pair(name, usd, complete) == [name |-> name, usd |-> usd, complete |-> complete]

Responses ==
    {[ok |-> FALSE, pairs |-> None],
     [ok |-> TRUE, pairs |-> None],
     [ok |-> TRUE, pairs |-> <<>>],
     [ok |-> TRUE, pairs |-> <<Pair("thin", 1, FALSE), Pair("deep", 5, TRUE),
                               Pair("late", 5, FALSE)>>],
     [ok |-> TRUE, pairs |-> <<Pair("deep", 5, FALSE), Pair("thin", 1, TRUE)>>]}

\* sorted(pairs, key=liquidity.usd, reverse=True)[0]: the first pair of the
\* largest liquidity (the sort is stable)
MostLiquid(pairs) ==
    pairs[CHOOSE i \in 1..Len(pairs) :
            \A j \in 1..Len(pairs) :
                /\ pairs[j].usd <= pairs[i].usd
                /\ (pairs[j].usd = pairs[i].usd => i <= j)]

\* fetch_token_info, given the answer to its request: [token, error], error
\* when st.error reports the failure.  st.cache_data keeps a result for 90 s
\* per address text; a cached result is an answer this model allows anyway.
fetch_token_info(resp) ==
    IF ~resp.ok THEN [token |-> None, error |-> TRUE]
    ELSE IF resp.pairs = None \/ resp.pairs = <<>> THEN [token |-> None, error |-> FALSE]
    ELSE [token |-> MostLiquid(resp.pairs), error |-> FALSE]

\* generate_meme_price_series(periods): a frame of `periods` rows of random
\* prices; only its shape is kept
generate_meme_price_series(periods) ==
    [periods |-> periods, freq |-> IF periods <= 60 THEN "2min" ELSE "15min"]

Truthy(v) == v # None

CaTexts == {<<>>, <<" ", " ">>, <<"A">>, <<" ", "B", " ">>}
NoteTexts == {<<>>, <<"p">>}
MaxTime == 2

BlankPage == [warning |-> "none", fetch_error |-> FALSE, aborted |-> FALSE, result |-> None]

\* QueryHandler leaving `diagnosed` as it was
QueryHandler_keeps_diagnosed(ss, text, resp, now) ==
    IF Strip(text) # <<>>
    THEN LET got == fetch_token_info(resp)
         IN  [ss |-> [ss EXCEPT !.ca = Strip(text),
                                !.token_data = got.token,
                                !.price_df_short = generate_meme_price_series(45),
                                !.price_df_long = generate_meme_price_series(90),
                                !.last_fetch_time = [at |-> now]],
              warning |-> "none", fetch_error |-> got.error]
    ELSE [ss |-> ss, warning |-> "enter a contract address", fetch_error |-> FALSE]

\* the "query / refresh" button, when it was clicked in this run
QueryHandler(ss, text, resp, now) ==
    IF Strip(text) # <<>>
    THEN LET got == fetch_token_info(resp)
         IN  [ss |-> [ss EXCEPT !.ca = Strip(text),
                                !.token_data = got.token,
                                !.price_df_short = generate_meme_price_series(45),
                                !.price_df_long = generate_meme_price_series(90),
                                !.last_fetch_time = [at |-> now],
                                !.diagnosed = FALSE],
              warning |-> "none", fetch_error |-> got.error]
    ELSE [ss |-> ss, warning |-> "enter a contract address", fetch_error |-> FALSE]

\* DiagnoseHandler without the token check
DiagnoseHandler_unchecked(ss) ==
    [ss |-> [ss EXCEPT !.diagnosed = TRUE], warning |-> "none"]

\* the "generate diagnosis" button, when it was clicked in this run
DiagnoseHandler(ss) ==
    IF ~Truthy(ss.token_data)
    THEN [ss |-> ss, warning |-> "query a valid token first"]
    ELSE [ss |-> [ss EXCEPT !.diagnosed = TRUE], warning |-> "none"]

\* label, message, level = risk_label_and_message(score) and the result box
ShowResult(score, t) == RenderResult(score, t[1], t[2], t[3])

Diagnose(score) == ShowResult(score, risk_label_and_message(score))

\* the diagnosis block
DiagnosisResult(ss) ==
    IF ss.diagnosed
    THEN Diagnose(ScoreTable[<<ss.x, ss.y, ss.z, ss.position>>])
    ELSE None

\* One run of the script, top to bottom.  ev is what the user did: which
\* button was clicked, if any, and the widget values.  The token panel
\* subscripts keys of the pair: on an incomplete pair it raises and the run
\* ends there, with the widgets below it not drawn.
ScriptRun(ss, text, ev, resp, now) ==
    LET q     == IF ev.button = "query" THEN QueryHandler(ss, text, resp, now)
                 ELSE [ss |-> ss, warning |-> "none", fetch_error |-> FALSE]
        abort == Truthy(q.ss.token_data) /\ ~q.ss.token_data.complete
        w     == [q.ss EXCEPT !.x = ev.x, !.y = ev.y, !.z = ev.z,
                              !.position = ev.position, !.notes = ev.notes]
        d     == IF ev.button = "diagnose" THEN DiagnoseHandler(w)
                 ELSE [ss |-> w, warning |-> "none"]
    IN  IF abort
        THEN [ss |-> q.ss,
              page |-> [warning |-> q.warning, fetch_error |-> q.fetch_error,
                        aborted |-> TRUE, result |-> None]]
        ELSE [ss |-> d.ss,
              page |-> [warning |-> IF q.warning # "none" THEN q.warning ELSE d.warning,
                        fetch_error |-> q.fetch_error,
                        aborted |-> FALSE, result |-> DiagnosisResult(d.ss)]]

\* the widget values when the user touches none of them
Widgets(ss) ==
    [button |-> "none", x |-> ss.x, y |-> ss.y, z |-> ss.z,
     position |-> ss.position, notes |-> ss.notes]

Init ==
    /\ session_state = defaults
    /\ ca_input = defaults.ca
    /\ clock = 0
    /\ event = "open"
    /\ page = BlankPage
    /\ call = NoCall
    /\ ret = NoCall

Apply(ev, run) ==
    /\ event' = ev
    /\ session_state' = run.ss
    /\ page' = run.page
    /\ UNCHANGED <<call, ret>>

\* the user types in the address box
TypeCA ==
    \E t \in CaTexts \ {ca_input} :
        /\ ca_input' = t
        /\ Apply("type", ScriptRun(session_state, t, Widgets(session_state), None, clock))
        /\ UNCHANGED clock

\* the user clicks "query / refresh"; a fetch reads the time, which has moved
\* on since the last one; the box is drawn anew from the stored address once
\* that changes
QueryClick ==
    \E resp \in Responses :
        /\ Strip(ca_input) # <<>> => clock < MaxTime
        /\ clock' = IF Strip(ca_input) # <<>> THEN clock + 1 ELSE clock
        /\ Apply("query", ScriptRun(session_state, ca_input,
                           [Widgets(session_state) EXCEPT !.button = "query"],
                           resp, clock'))
        /\ ca_input' = IF Strip(ca_input) # <<>> THEN Strip(ca_input) ELSE ca_input

MoveSlider ==
    \E f \in DOMAIN SliderStops :
        \E v \in SliderStops[f] \ {session_state[f]} :
            /\ ~page.aborted
            /\ Apply("slider", ScriptRun(session_state, ca_input,
                               [Widgets(session_state) EXCEPT ![f] = v], None, clock))
            /\ UNCHANGED <<ca_input, clock>>

EditNotes ==
    \E t \in NoteTexts \ {session_state.notes} :
        /\ ~page.aborted
        /\ Apply("notes", ScriptRun(session_state, ca_input,
                           [Widgets(session_state) EXCEPT !.notes = t], None, clock))
        /\ UNCHANGED <<ca_input, clock>>

\* the user clicks "generate diagnosis"
DiagnoseClick ==
    /\ ~page.aborted
    /\ Apply("diagnose", ScriptRun(session_state, ca_input,
                       [Widgets(session_state) EXCEPT !.button = "diagnose"],
                       None, clock))
    /\ UNCHANGED <<ca_input, clock>>

Next == TypeCA \/ QueryClick \/ MoveSlider \/ EditNotes \/ DiagnoseClick

Spec == Init /\ [][Next]_vars

\* no page: the state of the specifications that only call a function
Idle ==
    /\ session_state = defaults
    /\ ca_input = defaults.ca
    /\ clock = 0
    /\ event = "open"
    /\ page = BlankPage

IdleStays == UNCHANGED <<session_state, ca_input, clock, event, page>>

(***************************************************************************)
(* calculate_risk_score over slider positions                              *)
(***************************************************************************)
ScoreOf(c) == ScoreTable[<<c.x, c.y, c.z, c.p>>]

InitScore ==
    /\ call \in [x : XS, y : YS, z : ZS, p : PS]
    /\ ret = Pending
    /\ Idle

CallScore ==
    /\ ret = Pending
    /\ ret' = ScoreOf(call)
    /\ UNCHANGED call
    /\ IdleStays

Succ(S, v) == CHOOSE u \in S : u > v /\ \A w \in S : w > v => u <= w

\* the same call with one argument moved to the next sampled position
RaiseArg(f, S) ==
    /\ ret # Pending
    /\ \E u \in S : u > call[f]
    /\ call' = [call EXCEPT ![f] = Succ(S, call[f])]
    /\ ret' = ScoreOf(call')
    /\ IdleStays

NextScore ==
    \/ CallScore
    \/ RaiseArg("x", XS)
    \/ RaiseArg("y", YS)
    \/ RaiseArg("z", ZS)
    \/ RaiseArg("p", PS)

SpecScore == InitScore /\ [][NextScore]_vars

(***************************************************************************)
(* calculate_risk_score over ints of any size                              *)
(***************************************************************************)
\* the int k * 2^sh
WideInt(w) ==
    [s |-> IF w.k < 0 THEN 1 ELSE 0,
     n |-> BigFromInt(IF w.k < 0 THEN -w.k ELSE w.k),
     sh |-> w.sh]

OutBy == 150
LargeBits == 1000
HugeBits == 1031
WideSamples ==
    {[k |-> SliderMin - OutBy, sh |-> 0], [k |-> -1, sh |-> 0],
     [k |-> 50, sh |-> 0], [k |-> SliderMax + OutBy, sh |-> 0],
     [k |-> 1, sh |-> LargeBits], [k |-> -1, sh |-> LargeBits],
     [k |-> 1, sh |-> HugeBits]}

InitWide ==
    /\ call \in [x : WideSamples, y : WideSamples, z : WideSamples, p : WideSamples]
    /\ ret = Pending
    /\ Idle

CallWide ==
    /\ ret = Pending
    /\ ret' = calculate_risk_score(WideInt(call.x), WideInt(call.y),
                                   WideInt(call.z), WideInt(call.p))
    /\ UNCHANGED call
    /\ IdleStays

SpecWide == InitWide /\ [][CallWide]_vars

(***************************************************************************)
(* risk_label_and_message over scores                                      *)
(***************************************************************************)
\* a float a few units in the last place away from f
Nudge(f, d) ==
    IF d >= 0 THEN FRound(f.s, BigAdd(f.m, BigFromInt(d)), f.e, FALSE)
    ELSE FRound(f.s, BigSub(f.m, BigFromInt(-d)), f.e, FALSE)

MaxNudge == 1
\* the two-decimal scores 0.01 .. 0.99 and their neighbours within the range
\* of calculate_risk_score
LabelInputs ==
    {f \in {Nudge(Literal(n, 100), d) : n \in 1..99, d \in -MaxNudge..MaxNudge} :
        FLe(ScoreFloor, f) /\ FLe(f, ScoreCeil)}

InitLabel ==
    /\ call \in [score : LabelInputs]
    /\ ret = Pending
    /\ Idle

CallLabel ==
    /\ ret = Pending
    /\ LET t == risk_label_and_message(call.score)
       IN  ret' = [label |-> t[1], message |-> t[2], level |-> t[3],
                   shown |-> RenderResult(call.score, t[1], t[2], t[3])]
    /\ UNCHANGED call
    /\ IdleStays

SpecLabel == InitLabel /\ [][CallLabel]_vars

(***************************************************************************)
(* get_color_gradient over slider positions                                *)
(***************************************************************************)
InitColor ==
    /\ call \in [value : SliderMin..SliderMax]
    /\ ret = Pending
    /\ Idle

CallColor ==
    /\ ret = Pending
    /\ ret' = [color |-> get_color_gradient(call.value)]
    /\ UNCHANGED call
    /\ IdleStays

SpecColor == InitColor /\ [][CallColor]_vars


(***************************************************************************)
(* Exact comparisons of a float with a fraction                            *)
(***************************************************************************)
\* -1, 0 or 1 as the float f is below, at or above num/den (num >= 0,
\* 0 < den <= Base), with no rounding
RatCmp(f, num, den) ==
    IF FIsZero(f) THEN (IF num = 0 THEN 0 ELSE -1)
    ELSE IF f.s = 1 THEN -1
    ELSE IF f.e >= 0
    THEN BigCmp(BigShl(BigMulSmall(f.m, den), f.e), BigFromInt(num))
    ELSE BigCmp(BigMulSmall(f.m, den), BigShl(BigFromInt(num), -f.e))

BigAbsDiff(a, b) == IF BigCmp(a, b) = -1 THEN BigSub(b, a) ELSE BigSub(a, b)

\* |f - num/den| <= 2^-bits, for a float f >= 0, with no rounding
WithinTol(f, num, den, bits) ==
    LET k == IF -f.e >= bits THEN -f.e ELSE bits
        A == BigShl(BigMulSmall(f.m, den), k + f.e)
        B == BigShl(BigFromInt(num), k)
    IN  BigCmp(BigAbsDiff(A, B), BigShl(BigFromInt(den), k - bits)) <= 0

InScoreRange(f) == IsFloat(f) /\ RatCmp(f, 1, 100) >= 0 /\ RatCmp(f, 99, 100) <= 0

\* 10000 times the weighted sum, in integers
WeightedSum(x, y, z, p) == 35 * y + 28 * z + 22 * p + 15 * (100 - x)

ClampW(w) == IF w < 100 THEN 100 ELSE IF w > 9900 THEN 9900 ELSE w

Top == [x |-> 0, y |-> 100, z |-> 100, p |-> 100]
Bottom == [x |-> 100, y |-> 0, z |-> 0, p |-> 0]

RawAt(c) == RiskSum(TrueDiv(PyInt(c.x), Hundred), TrueDiv(PyInt(c.y), Hundred),
                    TrueDiv(PyInt(c.z), Hundred), TrueDiv(PyInt(c.p), Hundred))

(***************************************************************************)
(* Claims                                                                  *)
(***************************************************************************)
\* C1: for x, y, z, p in 0..100 calculate_risk_score returns a float s with
\* 0.01 <= s <= 0.99, so never 0 and never 1.
C1_ScoreInRange ==
    ret # Pending =>
        /\ InScoreRange(ret)
        /\ RatCmp(ret, 0, 1) = 1
        /\ RatCmp(ret, 1, 1) = -1

\* the lower clamp has acted: the weighted sum of (100, 0, 0, 0) is 0
C1_Witness == call = Bottom /\ ret = ScoreFloor /\ FIsZero(RawAt(call))

ClampF(r, lo, hi) == IF FLt(r, lo) THEN lo ELSE IF FLt(hi, r) THEN hi ELSE r

\* the sum as the claim writes it, weight first, in float arithmetic
SumAsWritten(c) ==
    FAdd(FAdd(FAdd(FMul(Literal(35, 100), TrueDiv(PyInt(c.y), 100)),
                   FMul(Literal(28, 100), TrueDiv(PyInt(c.z), 100))),
              FMul(Literal(22, 100), TrueDiv(PyInt(c.p), 100))),
         FMul(Literal(15, 100), FSub(FromInt(1), TrueDiv(PyInt(c.x), 100))))

\* C2: the score is exactly clamp(0.35*(y/100) + 0.28*(z/100) + 0.22*(p/100)
\* + 0.15*(1 - x/100), 0.01, 0.99) in float arithmetic, which is within
\* 2^-51 of that number in exact arithmetic; the four weights add up to
\* 1.0; the extremes have the sums 1.0 and 0.0 exactly and are clamped to
\* 0.99 and 0.01.
C2_WeightedSum ==
    ret # Pending =>
        /\ ret = ClampF(SumAsWritten(call), Literal(1, 100), Literal(99, 100))
        /\ WithinTol(ret, ClampW(WeightedSum(call.x, call.y, call.z, call.p)), 10000, 51)
        /\ FAdd(FAdd(FAdd(Literal(35, 100), Literal(28, 100)), Literal(22, 100)),
                Literal(15, 100)) = FromInt(1)
        /\ call = Top => RawAt(call) = FromInt(1) /\ ret = Literal(99, 100)
        /\ call = Bottom => FIsZero(RawAt(call)) /\ ret = Literal(1, 100)

\* the session defaults, where the float sum is 0.41200000000000003, one
\* float above the float 0.412
C2_Witness ==
    /\ call = [x |-> 50, y |-> 50, z |-> 50, p |-> 10]
    /\ ret = Nudge(IntRatio(PyInt(4120), 10000), 1)

\* C3: with the other three arguments fixed, raising y, z or p never lowers
\* the score and raising x never raises it.
C3_Monotone ==
    [][(ret # Pending /\ ret' # Pending) =>
          /\ call'.x > call.x => FLe(ret', ret)
          /\ (call'.y > call.y \/ call'.z > call.z \/ call'.p > call.p) => FLe(ret, ret')]_vars

\* z was raised to 97 and will be raised to 100: the sum passes 0.99 and
\* the score stays at the clamp
C3_Witness ==
    /\ call = [x |-> 0, y |-> 100, z |-> 97, p |-> 100]
    /\ ret = ScoreCeil
    /\ FLt(ScoreCeil, RawAt(call))

\* C4: every score in [0.01, 0.99] gets exactly one band: the first below
\* 0.38, the second from 0.38 to below 0.68, the third from 0.68 on; so
\* 0.37 is in the first, 0.38 and 0.67 in the second, 0.68 in the third.
C4_Bands ==
    ret # Pending =>
        /\ ret.label = (IF RatCmp(call.score, 38, 100) = -1 THEN "hunter"
                        ELSE IF RatCmp(call.score, 68, 100) = -1 THEN "wait-and-see"
                        ELSE "prey")
        /\ call.score = Literal(37, 100) => ret.label = "hunter"
        /\ call.score = Literal(38, 100) => ret.label = "wait-and-see"
        /\ call.score = Literal(67, 100) => ret.label = "wait-and-see"
        /\ call.score = Literal(68, 100) => ret.label = "prey"

\* the lower boundary itself has been classified
C4_Witness == call.score = BandLow /\ ret # Pending /\ ret.label = "wait-and-see"

\* C5: label and severity correspond one to one, and the box that is drawn
\* for the severity shows the label that came with it.
C5_LabelSeverity ==
    ret # Pending =>
        /\ <<ret.label, ret.level>> \in
               {<<"hunter", "success">>, <<"wait-and-see", "warning">>, <<"prey", "error">>}
        /\ <<ret.level, ret.shown.box>> \in
               {<<"success", "st.success">>, <<"warning", "st.warning">>, <<"error", "st.error">>}
        /\ ret.shown.label = ret.label

\* the branch that no comparison selects, the final else, has drawn its box
C5_Witness ==
    /\ ret # Pending
    /\ ret.level = "error"
    /\ ret.shown.box = "st.error"
    /\ ret.shown.label = "prey"
    /\ FLe(BandHigh, call.score)

BandOfW(w) == IF w < 3800 THEN "hunter" ELSE IF w < 6800 THEN "wait-and-see" ELSE "prey"

\* C6 as stated: the band the page shows for the sliders is the band of the
\* weighted sum W = 35y + 28z + 22p + 15(100 - x), the first iff W < 3800,
\* the second iff 3800 <= W < 6800, the third iff W >= 6800; the defaults
\* show the second, as a warning.
C6_BandByWeightedSum ==
    page.result # None =>
        /\ page.result.label =
               BandOfW(WeightedSum(session_state.x, session_state.y,
                                   session_state.z, session_state.position))
        /\ (/\ session_state.x = defaults.x
            /\ session_state.y = defaults.y
            /\ session_state.z = defaults.z
            /\ session_state.position = defaults.position)
           => page.result.box = "st.warning" /\ page.result.label = "wait-and-see"

\* the int k * 2^sh divided by 100 is below the largest float plus half a
\* unit in its last place, 2^1024 - 2^970
WithinFloatRange(w) ==
    \/ w.sh < 970
    \/ BigCmp(BigShl(BigFromInt(IF w.k < 0 THEN -w.k ELSE w.k), w.sh - 970),
              BigMulSmall(BigSub(BigShl(<<1>>, 54), <<1>>), 100)) = -1

\* C7 as stated: for any ints, negative and above 100 included, the call
\* raises nothing and returns a score in [0.01, 0.99].
C7_AnyIntInRange == ret # Pending => InScoreRange(ret)

\* C7 as amended: the call returns a score in [0.01, 0.99] for all ints
\* whose hundredth is in the range of a float, |v| < 100 * (2^1024 - 2^970),
\* and raises OverflowError when an argument is beyond that.
C7_IntInRangeUnlessOverflow ==
    ret # Pending =>
        IF \A f \in DOMAIN call : WithinFloatRange(call[f])
        THEN InScoreRange(ret)
        ELSE ret = OverflowError

\* negative, above 100 and very large arguments; the upper clamp has acted
C7_Witness ==
    /\ call.x = [k |-> SliderMin - OutBy, sh |-> 0]
    /\ call.y = [k |-> SliderMax + OutBy, sh |-> 0]
    /\ call.z = [k |-> 1, sh |-> LargeBits]
    /\ call.p = [k |-> -1, sh |-> 0]
    /\ ret = ScoreCeil

\* C8: diagnosed is set only while token_data holds a fetched token; a
\* diagnosis click without one only warns; no result is shown without one.
C8_DiagnosedNeedsToken ==
    /\ session_state.diagnosed => Truthy(session_state.token_data)
    /\ page.result # None => session_state.diagnosed /\ Truthy(session_state.token_data)
    /\ (event = "diagnose" /\ ~Truthy(session_state.token_data))
       => page.warning = "query a valid token first" /\ ~session_state.diagnosed

\* a diagnosis click after a fetch that failed: the warning, and no result
C8_Witness ==
    /\ event = "diagnose"
    /\ session_state.last_fetch_time # None
    /\ ~Truthy(session_state.token_data)
    /\ page.warning = "query a valid token first"
    /\ page.result = None

Fetched(ss) ==
    <<ss.ca, ss.token_data, ss.price_df_short, ss.price_df_long,
      ss.last_fetch_time, ss.diagnosed>>

\* C9: a query click with a non-blank address leaves diagnosed False and no
\* result on the page, whatever the fetch gave; one with a blank address
\* changes none of ca, token_data, price_df_short, price_df_long,
\* last_fetch_time and diagnosed; diagnosed becomes True by a diagnosis
\* click only.
C9_QueryResetsDiagnosis ==
    [][/\ (event' = "query" /\ Strip(ca_input) # <<>>)
          => ~session_state'.diagnosed /\ page'.result = None
       /\ (event' = "query" /\ Strip(ca_input) = <<>>)
          => Fetched(session_state') = Fetched(session_state)
       /\ (~session_state.diagnosed /\ session_state'.diagnosed)
          => event' = "diagnose"
       /\ page'.result # None => session_state'.diagnosed]_vars

\* the second fetch, a token again, has taken the diagnosis off the page
C9_Witness ==
    /\ event = "query"
    /\ clock = 2
    /\ Truthy(session_state.token_data)
    /\ ~session_state.diagnosed
    /\ page.result = None
    /\ ~page.aborted

HexValue(ch) == CHOOSE d \in 0..15 : HexDigit(d) = <<ch>>

\* the components of "#rrggbb"
ParseColor(c) ==
    [r |-> 16 * HexValue(c[2]) + HexValue(c[3]),
     g |-> 16 * HexValue(c[4]) + HexValue(c[5]),
     b |-> 16 * HexValue(c[6]) + HexValue(c[7])]

\* C10 as stated: the colour runs from (0,200,0) at 0 through (255,200,0)
\* at 50 to (200,0,0) at 100, each component in 0..255 and blue 0.
C10_Gradient ==
    ret # Pending =>
        LET rgb == ParseColor(ret.color)
        IN  /\ Len(ret.color) = 7
            /\ rgb.r \in 0..255 /\ rgb.g \in 0..255 /\ rgb.b = 0
            /\ call.value = 0 => rgb = [r |-> 0, g |-> 200, b |-> 0]
            /\ call.value = 50 => rgb = [r |-> 255, g |-> 200, b |-> 0]
            /\ call.value = 100 => rgb = [r |-> 200, g |-> 0, b |-> 0]
====
